---- MODULE Spec2Model ----
(***************************************************************************)
(* A model of gitopus (src/src/index.js): the credential store (Config),   *)
(* the repository gateway (GitOperations), the message generator           *)
(* (AIOperations) and the interactive session (Gitopus.run).               *)
(*                                                                         *)
(* Strings are sequences of one-character strings, so that split, trim,    *)
(* includes and length are computed as the JavaScript code computes them.  *)
(***************************************************************************)
EXTENDS Integers, Sequences, FiniteSets, TLC

(***************************************************************************)
(* Bounds of the model                                                     *)
(***************************************************************************)
\* longest response text enumerated character by character
MaxTextLen == 5
\* longest text the operator types at an input prompt
MaxInputLen == 4
\* number of consecutive runs of the tool
MaxRuns == 2
\* "generate" choices in one run
MaxGenerations == 2
\* "status" and "log" choices in one run
MaxViews == 2

(***************************************************************************)
(* String helpers (JavaScript String semantics)                            *)
(***************************************************************************)
Digits == {"0", "1", "2", "3", "4", "5", "6", "7", "8", "9"}
Spaces == {" ", "\n", "\t", "\r"}

\* all strings over alphabet A of length at most n
StringsUpTo(A, n) == UNION {[1..k -> A] : k \in 0..n}

\* first index j >= i with j > Len(s) or s[j] outside the class C
RunEnd(s, i, C) ==
    CHOOSE j \in i..(Len(s) + 1) :
        /\ \A k \in i..(j - 1) : s[k] \in C
        /\ (j <= Len(s) => s[j] \notin C)

\* String.prototype.trim
Trim(s) ==
    LET first == RunEnd(s, 1, Spaces)
        last  == CHOOSE j \in 0..Len(s) :
                     /\ \A k \in (j + 1)..Len(s) : s[k] \in Spaces
                     /\ (j >= 1 => s[j] \notin Spaces)
    IN  IF first > Len(s) THEN <<>> ELSE SubSeq(s, first, last)

\* String.prototype.includes
Includes(s, sub) ==
    \E i \in 1..(Len(s) - Len(sub) + 1) : SubSeq(s, i, i + Len(sub) - 1) = sub

\* the regular expression /\d+\.\s+/ tried at position q of s: the index
\* just after the match, or 0 when there is no match at q
MatchEnd(s, q) ==
    LET d == RunEnd(s, q, Digits)
    IN  IF d = q THEN 0
        ELSE IF d > Len(s) \/ s[d] # "." THEN 0
        ELSE LET w == RunEnd(s, d + 1, Spaces)
             IN  IF w = d + 1 THEN 0 ELSE w

\* String.prototype.split with that regular expression: p is the start of
\* the current segment, q the position where a match is tried next
RECURSIVE SplitFrom(_, _, _)
SplitFrom(s, p, q) ==
    IF q > Len(s) THEN << SubSeq(s, p, Len(s)) >>
    ELSE LET e == MatchEnd(s, q)
         IN  IF e = 0 THEN SplitFrom(s, p, q + 1)
             ELSE << SubSeq(s, p, q - 1) >> \o SplitFrom(s, e, e)

Split(s) == SplitFrom(s, 1, 1)

\* a mutation of Slice1: the first segment is kept
Slice1_keepFirst(a) == a

\* Array.prototype.slice(1)
Slice1(a) == IF Len(a) = 0 THEN <<>> ELSE Tail(a)

\* Array.prototype.map(msg => msg.trim())
MapTrim(a) == [i \in 1..Len(a) |-> Trim(a[i])]

\* a mutation of the length filter: candidates one longer than the maximum pass
FitsLength_offByOne(msg, maxLen) == Len(msg) > 0 /\ Len(msg) <= maxLen + 1

\* the filter predicate of _parseMessages
FitsLength(msg, maxLen) == Len(msg) > 0 /\ Len(msg) <= maxLen

\* AIOperations._parseMessages
parseMessages(t, cfg) ==
    LET Keep(msg) == FitsLength(msg, cfg.maxCommitLength)
    IN  SelectSeq(MapTrim(Slice1(Split(t))), Keep)


(***************************************************************************)
(* Custom error classes (index.js 54-67) and thrown values                 *)
(***************************************************************************)
GitError(msg) == [name |-> "GitError", message |-> msg]
APIError(msg, isRateLimit) ==
    [name |-> "APIError", message |-> msg, isRateLimit |-> isRateLimit]
PlainError(msg) == [name |-> "Error", message |-> msg]
NoError == [name |-> "none"]

\* a message built from a template literal and the values put into it
Msg(template, args) == [text |-> template, args |-> args]

(***************************************************************************)
(* Configuration management (class Config)                                 *)
(***************************************************************************)
\* the default configuration; configVersion is a string in the source
DEFAULT_CONFIG ==
    [maxCommitLength |-> 70, minMessageLength |-> 4, apiTimeout |-> 10000,
     maxRetries |-> 3, retryDelay |-> 1000, configVersion |-> "1.0.0"]

\* object spread { ...a, ...b }
Spread(a, b) ==
    [k \in (DOMAIN a) \cup (DOMAIN b) |-> IF k \in DOMAIN b THEN b[k] ELSE a[k]]

\* obj.key = value
SetKey(obj, key, value) ==
    [k \in (DOMAIN obj) \cup {key} |-> IF k = key THEN value ELSE obj[k]]

\* the empty object {}
EmptyObject == [k \in {} |-> 0]

\* passphrases and their SHA-256 digests (an injective table)
DefaultPassphrase == "default-secure-key-123"
Sha256(p) == IF p = DefaultPassphrase THEN 11 ELSE 29

\* Config.getEncryptionKey: process.env.ENCRYPTION_KEY || default ("" is unset)
getEncryptionKey(env) == Sha256(IF env # "" THEN env ELSE DefaultPassphrase)

\* byte lengths of the initialization vector and of the authentication tag
IvLen == 16
TagLen == 16

\* UTF-8 code units of the characters API keys are made of here
CharCode(c) ==
    CASE c = "A" -> 65 [] c = "I" -> 73 [] c = "z" -> 122 [] c = "a" -> 97
      [] OTHER -> 63
CharOf(b) ==
    CASE b = 65 -> "A" [] b = 73 -> "I" [] b = 122 -> "z" [] b = 97 -> "a"
      [] OTHER -> "?"
Utf8Encode(s) == [i \in 1..Len(s) |-> CharCode(s[i])]
Utf8Decode(b) == [i \in 1..Len(b) |-> CharOf(b[i])]

RECURSIVE SumSeq(_)
SumSeq(b) == IF Len(b) = 0 THEN 0 ELSE Head(b) + SumSeq(Tail(b))

\* AES-256-GCM, abstracted: a stream cipher keyed by key and iv, and a keyed
\* checksum over iv and ciphertext as the authentication tag
KeyStream(key, iv, i) == (key + iv[((i - 1) % Len(iv)) + 1] + 7 * i) % 256
GcmEncrypt(key, iv, pt) == [i \in 1..Len(pt) |-> (pt[i] + KeyStream(key, iv, i)) % 256]
GcmDecrypt(key, iv, ct) ==
    [i \in 1..Len(ct) |-> (ct[i] + 256 - KeyStream(key, iv, i)) % 256]
GcmTag(key, iv, ct) ==
    [j \in 1..TagLen |-> (key * j + SumSeq(iv) + SumSeq(ct) + Len(ct)) % 256]

\* Buffer.toString("base64"): the text as indices into the base64 alphabet,
\* 64 standing for the padding character "="
ByteAt(b, i) == IF i <= Len(b) THEN b[i] ELSE 0
Base64Encode(b) ==
    [n \in 1..(4 * ((Len(b) + 2) \div 3)) |->
        LET g == (n - 1) \div 4
            r == (n - 1) % 4
            x == ByteAt(b, 3 * g + 1)
            y == ByteAt(b, 3 * g + 2)
            z == ByteAt(b, 3 * g + 3)
        IN  CASE r = 0 -> x \div 4
              [] r = 1 -> (x % 4) * 16 + y \div 16
              [] r = 2 -> IF 3 * g + 2 > Len(b) THEN 64
                          ELSE (y % 16) * 4 + z \div 64
              [] r = 3 -> IF 3 * g + 3 > Len(b) THEN 64 ELSE z % 64]

\* Buffer.from(text, "base64"): decoding stops at the first padding character
\* and a trailing partial group gives only its complete bytes
Base64Decode(t) ==
    LET stop == CHOOSE j \in 1..(Len(t) + 1) :
                    /\ \A k \in 1..(j - 1) : t[k] # 64
                    /\ (j <= Len(t) => t[j] = 64)
        m == stop - 1
        SextetAt(i) == IF i <= m THEN t[i] ELSE 0
    IN  [n \in 1..((m * 6) \div 8) |->
            LET g == (n - 1) \div 3
                r == (n - 1) % 3
                s1 == SextetAt(4 * g + 1)
                s2 == SextetAt(4 * g + 2)
                s3 == SextetAt(4 * g + 3)
                s4 == SextetAt(4 * g + 4)
            IN  CASE r = 0 -> s1 * 4 + s2 \div 16
                  [] r = 1 -> (s2 % 16) * 16 + s3 \div 4
                  [] r = 2 -> (s3 % 4) * 64 + s4]

\* Buffer.slice(from, to) with zero-based bounds
BufSlice(b, from, to) ==
    SubSeq(b, from + 1, IF to < Len(b) THEN to ELSE Len(b))

\* Config.encrypt with the random iv drawn by the caller:
\* base64(iv || authTag || encrypted)
encrypt(textIn, iv, env) ==
    LET key == getEncryptionKey(env)
        encrypted == GcmEncrypt(key, iv, Utf8Encode(textIn))
        authTag == GcmTag(key, iv, encrypted)
    IN  Base64Encode(iv \o authTag \o encrypted)

\* a mutation of decrypt: the authentication tag is not verified
decrypt_noAuth(encryptedData, env) ==
    LET buffer == Base64Decode(encryptedData)
        iv == BufSlice(buffer, 0, IvLen)
        authTag == BufSlice(buffer, IvLen, IvLen + TagLen)
        encrypted == BufSlice(buffer, IvLen + TagLen, Len(buffer))
        key == getEncryptionKey(env)
    IN  IF Len(iv) = IvLen /\ Len(authTag) = TagLen
        THEN [ok |-> TRUE, value |-> Utf8Decode(GcmDecrypt(key, iv, encrypted))]
        ELSE [ok |-> FALSE, error |-> PlainError(Msg("Decryption failed: ${error.message}", <<"auth">>))]

\* a mutation of decrypt: the ciphertext is taken one byte too far in
decrypt_wrongSlice(encryptedData, env) ==
    LET buffer == Base64Decode(encryptedData)
        iv == BufSlice(buffer, 0, IvLen)
        authTag == BufSlice(buffer, IvLen, IvLen + TagLen)
        encrypted == BufSlice(buffer, IvLen + TagLen + 1, Len(buffer))
        key == getEncryptionKey(env)
    IN  IF Len(iv) = IvLen /\ Len(authTag) = TagLen
           /\ authTag = GcmTag(key, iv, encrypted)
        THEN [ok |-> TRUE, value |-> Utf8Decode(GcmDecrypt(key, iv, encrypted))]
        ELSE [ok |-> FALSE, error |-> PlainError(Msg("Decryption failed: ${error.message}", <<"auth">>))]

\* Config.decrypt: [ok |-> TRUE, value |-> plaintext] or, when the tag does
\* not verify, [ok |-> FALSE, error |-> Error("Decryption failed: ...")]
decrypt(encryptedData, env) ==
    LET buffer == Base64Decode(encryptedData)
        iv == BufSlice(buffer, 0, IvLen)
        authTag == BufSlice(buffer, IvLen, IvLen + TagLen)
        encrypted == BufSlice(buffer, IvLen + TagLen, Len(buffer))
        key == getEncryptionKey(env)
    IN  IF Len(iv) = IvLen /\ Len(authTag) = TagLen
           /\ authTag = GcmTag(key, iv, encrypted)
        THEN [ok |-> TRUE, value |-> Utf8Decode(GcmDecrypt(key, iv, encrypted))]
        ELSE [ok |-> FALSE, error |-> PlainError(Msg("Decryption failed: ${error.message}", <<"auth">>))]


\* the persisted configuration file: absent, present with content that
\* JSON.parse rejects, or present with a JSON object
AbsentFile == [kind |-> "absent", data |-> EmptyObject]
UnparsableFile == [kind |-> "unparsable", data |-> EmptyObject]
JsonFile(obj) == [kind |-> "json", data |-> obj]

ConfigError(detail) == PlainError(Msg("Configuration error: ${error.message}", <<detail>>))

\* a mutation of load: the defaults are spread over the persisted keys
load_defaultsWin(f, writeOk) ==
    IF f.kind = "absent"
    THEN IF writeOk
         THEN [ok |-> TRUE, value |-> DEFAULT_CONFIG, file |-> JsonFile(DEFAULT_CONFIG)]
         ELSE [ok |-> FALSE, error |-> ConfigError("write"), file |-> f]
    ELSE IF f.kind = "unparsable"
    THEN [ok |-> FALSE, error |-> ConfigError("parse"), file |-> f]
    ELSE [ok |-> TRUE, value |-> Spread(f.data, DEFAULT_CONFIG), file |-> f]

\* Config.load on file f; writeOk tells whether fs.writeFile succeeds
load(f, writeOk) ==
    IF f.kind = "absent"
    THEN IF writeOk
         THEN [ok |-> TRUE, value |-> DEFAULT_CONFIG, file |-> JsonFile(DEFAULT_CONFIG)]
         ELSE [ok |-> FALSE, error |-> ConfigError("write"), file |-> f]
    ELSE IF f.kind = "unparsable"
    THEN [ok |-> FALSE, error |-> ConfigError("parse"), file |-> f]
    ELSE [ok |-> TRUE, value |-> Spread(DEFAULT_CONFIG, f.data), file |-> f]

\* Config.save
save(f, cfg, writeOk) ==
    IF writeOk THEN [ok |-> TRUE, file |-> JsonFile(cfg)]
    ELSE [ok |-> FALSE, error |-> PlainError(Msg("Failed to save configuration: ${error.message}", <<"write">>)),
          file |-> f]

\* null and the empty string, which the code tells apart nowhere (!apiKey)
Null == <<>>

\* config.apiKey is truthy
HasApiKey(cfg) == "apiKey" \in DOMAIN cfg /\ cfg.apiKey # Null

\* Gitopus._readApiKey: the decrypted key, or null (with a warning) when
\* loading or decrypting throws
readApiKey(f, env) ==
    LET l == load(f, TRUE)
    IN  IF ~l.ok THEN [value |-> Null, warned |-> TRUE, file |-> l.file]
        ELSE IF ~HasApiKey(l.value) THEN [value |-> Null, warned |-> FALSE, file |-> l.file]
        ELSE LET d == decrypt(l.value.apiKey, env)
             IN  IF d.ok THEN [value |-> d.value, warned |-> FALSE, file |-> l.file]
                 ELSE [value |-> Null, warned |-> TRUE, file |-> l.file]

\* a text made of characters of the base64 alphabet, written as encrypt's
\* output is: by the index of each character in that alphabet
Base64Index(c) ==
    CASE c = "A" -> 0 [] c = "I" -> 8 [] c = "a" -> 26 [] c = "z" -> 51
      [] OTHER -> 63
AsStoredText(s) == [i \in 1..Len(s) |-> Base64Index(s[i])]

\* a mutation of _storeApiKey: the key is saved as it was entered
storeApiKey_plaintext(f, k, iv, env, writeOk) ==
    LET l == load(f, writeOk)
    IN  IF ~l.ok
        THEN [ok |-> FALSE, file |-> l.file,
              error |-> PlainError(Msg("Failed to store API key: ${error.message}", <<l.error.message>>))]
        ELSE LET sv == save(l.file, SetKey(l.value, "apiKey", AsStoredText(k)), writeOk)
             IN  IF sv.ok THEN [ok |-> TRUE, file |-> sv.file]
                 ELSE [ok |-> FALSE, file |-> sv.file,
                       error |-> PlainError(Msg("Failed to store API key: ${error.message}", <<sv.error.message>>))]

\* a mutation of _storeApiKey: the configuration is saved as it was loaded
storeApiKey_keepsOld(f, k, iv, env, writeOk) ==
    LET l == load(f, writeOk)
    IN  IF ~l.ok
        THEN [ok |-> FALSE, file |-> l.file,
              error |-> PlainError(Msg("Failed to store API key: ${error.message}", <<l.error.message>>))]
        ELSE LET sv == save(l.file, l.value, writeOk)
             IN  IF sv.ok THEN [ok |-> TRUE, file |-> sv.file]
                 ELSE [ok |-> FALSE, file |-> sv.file,
                       error |-> PlainError(Msg("Failed to store API key: ${error.message}", <<sv.error.message>>))]

\* a mutation of _storeApiKey: the key is set on a copy of the defaults
storeApiKey_overDefaults(f, k, iv, env, writeOk) ==
    LET encrypted == encrypt(k, iv, env)
        l == load(f, writeOk)
    IN  IF ~l.ok
        THEN [ok |-> FALSE, file |-> l.file,
              error |-> PlainError(Msg("Failed to store API key: ${error.message}", <<l.error.message>>))]
        ELSE LET sv == save(l.file, SetKey(DEFAULT_CONFIG, "apiKey", encrypted), writeOk)
             IN  IF sv.ok THEN [ok |-> TRUE, file |-> sv.file]
                 ELSE [ok |-> FALSE, file |-> sv.file,
                       error |-> PlainError(Msg("Failed to store API key: ${error.message}", <<sv.error.message>>))]

\* Gitopus._storeApiKey
storeApiKey(f, k, iv, env, writeOk) ==
    LET encrypted == encrypt(k, iv, env)
        l == load(f, writeOk)
    IN  IF ~l.ok
        THEN [ok |-> FALSE, file |-> l.file,
              error |-> PlainError(Msg("Failed to store API key: ${error.message}", <<l.error.message>>))]
        ELSE LET sv == save(l.file, SetKey(l.value, "apiKey", encrypted), writeOk)
             IN  IF sv.ok THEN [ok |-> TRUE, file |-> sv.file]
                 ELSE [ok |-> FALSE, file |-> sv.file,
                       error |-> PlainError(Msg("Failed to store API key: ${error.message}", <<sv.error.message>>))]

(***************************************************************************)
(* Git operations (class GitOperations)                                    *)
(***************************************************************************)
\* the word /bin/sh makes of "${message}" in git commit -m "${message}",
\* the command line exec hands to the shell: inside double quotes a double
\* quote ends the quoting, a backslash escapes the next character, a dollar
\* sign followed by a name is replaced by the variable's value and a pair
\* of backquotes by the output of the command between them; value is what
\* such substitutions yield. The command line is refused when a quote or a
\* backquote is left open, and a blank outside quotes ends the word, what
\* follows being further arguments.
\* the backquote character, which a string of this module cannot hold
Backtick == "backquote"
Letters ==
    { "a", "b", "c", "d", "e", "f", "h", "i", "l", "n", "o", "r", "s", "t", "x",
      "y", "z", "A", "H", "I", "X", "Y", "v" }
ShellFailed == [ok |-> FALSE]
NameEnd(s, i) ==
    CHOOSE j \in i..(Len(s) + 1) :
        /\ \A k \in i..(j - 1) : s[k] \in Letters
        /\ (j <= Len(s) => s[j] \notin Letters)
NextBacktick(s, i) ==
    IF \E j \in i..Len(s) : s[j] = Backtick
    THEN CHOOSE j \in i..Len(s) : s[j] = Backtick /\ \A k \in i..(j - 1) : s[k] # Backtick
    ELSE 0
RECURSIVE ShellScan(_, _, _, _, _)
ShellScan(s, i, quoted, out, value) ==
    IF i > Len(s)
    THEN IF quoted THEN ShellFailed ELSE [ok |-> TRUE, word |-> out, more |-> FALSE]
    ELSE LET c == s[i]
         IN  IF c = "\""
             THEN ShellScan(s, i + 1, ~quoted, out, value)
             ELSE IF c = "\\"
             THEN IF i = Len(s) THEN ShellFailed
                  ELSE IF quoted /\ s[i + 1] \notin {"$", Backtick, "\"", "\\"}
                  THEN ShellScan(s, i + 2, quoted, out \o <<c, s[i + 1]>>, value)
                  ELSE ShellScan(s, i + 2, quoted, Append(out, s[i + 1]), value)
             ELSE IF c = "$"
             THEN IF i < Len(s) /\ s[i + 1] \in Letters
                  THEN ShellScan(s, NameEnd(s, i + 1), quoted, out \o value, value)
                  ELSE ShellScan(s, i + 1, quoted, Append(out, c), value)
             ELSE IF c = Backtick
             THEN IF NextBacktick(s, i + 1) = 0 THEN ShellFailed
                  ELSE ShellScan(s, NextBacktick(s, i + 1) + 1, quoted, out \o value, value)
             ELSE IF c \in Spaces /\ ~quoted
             THEN [ok |-> TRUE, word |-> out, more |-> TRUE]
             ELSE ShellScan(s, i + 1, quoted, Append(out, c), value)

\* GitOperations.commit: the message of the commit created, or the GitError
\* thrown when the shell refuses the command line, when git is given
\* further arguments or an empty message, or when git fails (gitOk)
commit(message, value, gitOk) ==
    LET sh == ShellScan(Append(message, "\""), 1, TRUE, <<>>, value)
    IN  IF gitOk /\ sh.ok /\ ~sh.more /\ Trim(sh.word) # <<>>
        THEN [ok |-> TRUE, created |-> sh.word]
        ELSE [ok |-> FALSE, error |-> GitError(Msg("Commit failed: ${error.message}", <<"Command failed">>))]

\* a mutation of getDiff: the emptiness test is made on the untrimmed output
getDiff_noTrim(out) ==
    IF ~out.ok THEN [ok |-> FALSE, error |-> GitError(Msg("Failed to get git diff: ${error.message}", <<out.error>>))]
    ELSE IF out.stdout = <<>>
    THEN [ok |-> FALSE, error |-> GitError(Msg("No staged changes found", <<>>))]
    ELSE [ok |-> TRUE, value |-> out.stdout]

\* GitOperations.getDiff on the outcome of exec("git diff --cached")
getDiff(out) ==
    IF ~out.ok THEN [ok |-> FALSE, error |-> GitError(Msg("Failed to get git diff: ${error.message}", <<out.error>>))]
    ELSE IF Trim(out.stdout) = <<>>
    THEN [ok |-> FALSE, error |-> GitError(Msg("No staged changes found", <<>>))]
    ELSE [ok |-> TRUE, value |-> out.stdout]

\* Gitopus._handleError: what is logged for an error
handleError(e) ==
    IF e.name = "GitError" THEN Msg("Git Error: ${error.message}", <<e.message>>)
    ELSE IF e.name = "APIError"
    THEN IF e.isRateLimit
         THEN Msg("API rate limit exceeded. Please try again later.", <<>>)
         ELSE Msg("API Error: ${error.message}", <<e.message>>)
    ELSE Msg("Error: ${error.message}", <<e.message>>)

\* a mutation of _buildPrompt: the diff is trimmed before it is put in
buildPrompt_trimmed(cfg, d) ==
    Msg("Generate a conventional commit message for this git diff. STRICT REQUIREMENTS: - Strictly evaluate the contents of the 'Diff' given below - Maximum ${this.config.maxCommitLength} characters total - Include type suitable short prefix in lowercase (feat, fix, refactor, test,docs, style, chore etc.) - Return exactly 1 prompt reporting all the main changes separated by commas (1., 2., etc.) Diff: ${diff} Return ONLY the numbered commit messages.",
        << cfg.maxCommitLength, Trim(d) >>)

\* AIOperations._buildPrompt: the template with this.config.maxCommitLength
\* and the diff put in
buildPrompt(cfg, d) ==
    Msg("Generate a conventional commit message for this git diff. STRICT REQUIREMENTS: - Strictly evaluate the contents of the 'Diff' given below - Maximum ${this.config.maxCommitLength} characters total - Include type suitable short prefix in lowercase (feat, fix, refactor, test,docs, style, chore etc.) - Return exactly 1 prompt reporting all the main changes separated by commas (1., 2., etc.) Diff: ${diff} Return ONLY the numbered commit messages.",
        << cfg.maxCommitLength, d >>)

\* no generateContent call was made
NoPrompt == Msg("", <<>>)


(***************************************************************************)
(* State                                                                   *)
(***************************************************************************)
VARIABLES
    file,       \* ~/.gitopus/config.json
    envKey,     \* process.env.ENCRYPTION_KEY ("" when unset)
    envApiKey,  \* process.env.GEMINI_API_KEY (empty when unset)
    run,        \* number of the current run of the tool
    pc,         \* where Gitopus.run stands
    config,     \* this.config
    apiKey,     \* the key this.aiOps was built with
    keyRead,    \* what _readApiKey returned in this run
    diff,       \* const diff of Gitopus.run
    execOut,    \* the outcome of the last exec("git diff --cached")
    err,        \* the error the last step threw to a catch block
    exitCode,   \* the exit code of the process
    logged,     \* what the last step wrote through logger
    trace,      \* the operations of this run, in order of first occurrence
    cnt,        \* how many times this run performed each counted operation
    messages,   \* the candidates returned by generateCommitMessage
    message,    \* the message selected, edited or typed
    prefix,     \* the commit type selected in the manual flow
    commits,    \* the messages passed to GitOperations.commit in this run
    created,    \* the messages of the commits git created in this run
    gpc,        \* where generateCommitMessage stands
    attempts,   \* let attempts of generateCommitMessage
    requests,   \* generateContent calls of this invocation
    prompt,     \* the prompt of the last generateContent call of this invocation
    waits,      \* retryDelay waits started in this invocation
    failures,   \* the error texts of the failed attempts of this invocation
    response,   \* the text of the response being parsed
    genResult,  \* how the last invocation of generateCommitMessage ended
    late,       \* the kinds of settlement still to come after their race
                \* was decided: "request", "timer"
    lastStored  \* the last successful _storeApiKey: key, passphrase, run

vars == << file, envKey, envApiKey, run, pc, config, apiKey, keyRead, diff, execOut, err,
           exitCode, logged, trace, cnt, messages, message, prefix, commits,
           created,
           gpc, attempts, requests, prompt, waits, failures, response, genResult,
           late, lastStored >>

stepVars == << pc, err, logged >>
startVars == << config, apiKey, keyRead, diff, execOut >>
auditVars == << trace, cnt >>
localVars == << messages, message, prefix >>
genVars == << gpc, attempts, requests, prompt, waits, failures, response, genResult >>
storeVars == << file, envKey, envApiKey, run, lastStored >>

(***************************************************************************)
(* Inputs                                                                  *)
(***************************************************************************)
\* what the operator types at the API key prompt
KeyInputs == { <<"A", "I">>, <<" ", "z", " ">> }

\* values of crypto.randomBytes(16)
Ivs == { [i \in 1..IvLen |-> 0], [i \in 1..IvLen |-> (i * 37) % 256] }

\* what a variable or a command named in a commit message yields in the shell
ShellValues == { <<>>, <<"v">> }

\* outcomes of exec("git diff --cached")
DiffOutputs == { <<>>, <<" ", "\n">>, <<"+", "a">>, <<"+", "a", "\n">> }
ExecOutcomes ==
    { [ok |-> FALSE, error |-> "Command failed"] }
    \cup { [ok |-> TRUE, stdout |-> o] : o \in DiffOutputs }

\* a stored key blob made under the default passphrase, and the same blob
\* with its first character changed
StoredBlob == encrypt(<<"A", "I">>, [i \in 1..IvLen |-> 0], "")
CorruptBlob == [StoredBlob EXCEPT ![1] = (@ + 1) % 64]

\* the configuration files a run may find
Overrides ==
    { EmptyObject, [maxRetries |-> 0], [maxRetries |-> 1], [maxRetries |-> 2],
      [maxCommitLength |-> 8, minMessageLength |-> 2] }
InitFiles ==
    { AbsentFile, UnparsableFile }
    \cup { JsonFile(o) : o \in Overrides }
    \cup { JsonFile(SetKey([maxRetries |-> 1], "apiKey", b)) :
             b \in {StoredBlob, CorruptBlob} }

NoStore == [run |-> 0]
NoResult == [kind |-> "none"]

\* operations recorded in trace and counted in cnt
Counted == { "getDiff", "generate", "commit", "push", "view", "keyPrompt" }
Note(t, op) == IF \E i \in 1..Len(t) : t[i] = op THEN t ELSE Append(t, op)
Count(c, op) == [c EXCEPT ![op] = @ + 1]

(***************************************************************************)
(* Initial state: a fresh process, new Gitopus()                           *)
(***************************************************************************)
FreshSession ==
    /\ pc = "start"
    /\ config = EmptyObject
    /\ apiKey = Null
    /\ keyRead = Null
    /\ diff = <<>>
    /\ execOut = [ok |-> FALSE, error |-> "not run"]
    /\ err = NoError
    /\ exitCode = 0
    /\ logged = <<>>
    /\ trace = <<>>
    /\ cnt = [op \in Counted |-> 0]
    /\ messages = <<>>
    /\ message = <<>>
    /\ prefix = <<>>
    /\ commits = <<>>
    /\ created = <<>>

FreshGenerator ==
    /\ gpc = "idle"
    /\ attempts = 0
    /\ requests = 0 /\ prompt = NoPrompt
    /\ waits = 0
    /\ failures = <<>>
    /\ response = <<>>
    /\ genResult = NoResult

Init ==
    /\ file \in InitFiles
    /\ envKey \in {"", "other-passphrase"}
    /\ envApiKey = Null
    /\ run = 1
    /\ lastStored = NoStore
    /\ FreshSession
    /\ FreshGenerator
    /\ late = {}


\* log entries
Log(level, m) == [level |-> level, msg |-> m]

\* a step of the session: where it goes, what it threw, what it logged
Step(to, e, logs) ==
    /\ pc' = to
    /\ err' = e
    /\ logged' = logs

\* the locals of a finished generateCommitMessage call are gone
ResetGenerator ==
    /\ gpc' = "idle"
    /\ attempts' = 0
    /\ requests' = 0 /\ prompt' = NoPrompt
    /\ waits' = 0
    /\ failures' = <<>>
    /\ response' = <<>>
    /\ genResult' = NoResult

\* the locals of a finished _handleChoice call are gone
ResetLocals ==
    /\ messages' = <<>>
    /\ message' = <<>>
    /\ prefix' = <<>>

(***************************************************************************)
(* Gitopus.run: start-up                                                   *)
(***************************************************************************)
\* the catch block of run: _handleError, then run returns and the process
\* ends with the exit code it has
RunCatch(e) == Step("exited", e, << Log("error", handleError(e)) >>)

\* a mutation of the catch block of initialize: a GitError is thrown on
initializeCatch_rethrow(e) ==
    /\ RunCatch(e)
    /\ UNCHANGED exitCode

\* the catch block of initialize on a GitError: logger.error(error.message);
\* process.exit(1)
initializeCatch(e) ==
    /\ Step("exited", e, << Log("error", e.message) >>)
    /\ exitCode' = 1

\* initialize: await GitOperations.checkRepository()
CheckRepository ==
    /\ pc = "start"
    /\ trace' = Note(trace, "checkRepository")
    /\ \E inside \in BOOLEAN :
         IF inside
         THEN /\ Step("loadConfig", NoError, <<>>)
              /\ UNCHANGED exitCode
         ELSE initializeCatch(GitError(Msg("Not a git repository", <<>>)))
    /\ UNCHANGED << startVars, cnt, localVars, commits, created, genVars, late, storeVars >>

\* initialize: Config.load threw; the error is not a GitError, so it is
\* thrown on to the catch block of run
loadFailed(e) ==
    /\ RunCatch(e)
    /\ UNCHANGED exitCode

\* a mutation of initialize: the API key is not obtained at start-up
LoadConfig_lazyKey ==
    /\ pc = "loadConfig"
    /\ \E writeOk \in BOOLEAN :
         LET l == load(file, writeOk)
         IN  /\ file' = l.file
             /\ trace' = Note(IF l.file # file THEN Note(trace, "configWrite") ELSE trace,
                              "configRead")
             /\ IF l.ok
                THEN /\ config' = l.value
                     /\ Step("getDiff", NoError, <<>>)
                     /\ UNCHANGED exitCode
                ELSE /\ loadFailed(l.error)
                     /\ UNCHANGED config
    /\ UNCHANGED << apiKey, keyRead, diff, execOut, cnt, localVars, commits, created >>
    /\ UNCHANGED << genVars, late, envKey, envApiKey, run, lastStored >>

\* initialize: this.config = await Config.load()
LoadConfig ==
    /\ pc = "loadConfig"
    /\ \E writeOk \in BOOLEAN :
         LET l == load(file, writeOk)
         IN  /\ file' = l.file
             /\ trace' = Note(IF l.file # file THEN Note(trace, "configWrite") ELSE trace,
                              "configRead")
             /\ IF l.ok
                THEN /\ config' = l.value
                     /\ Step("readApiKey", NoError, <<>>)
                     /\ UNCHANGED exitCode
                ELSE /\ loadFailed(l.error)
                     /\ UNCHANGED config
    /\ UNCHANGED << apiKey, keyRead, diff, execOut, cnt, localVars, commits, created >>
    /\ UNCHANGED << genVars, late, envKey, envApiKey, run, lastStored >>

\* _getApiKey: let apiKey = await this._readApiKey(); with a key,
\* this.aiOps is built and run goes on to getDiff
ReadApiKey ==
    /\ pc = "readApiKey"
    /\ LET r == readApiKey(file, envKey)
       IN  /\ file' = r.file
           /\ keyRead' = r.value
           /\ trace' = IF r.warned THEN Note(Note(trace, "keyRead"), "keyWarning")
                       ELSE Note(trace, "keyRead")
           /\ IF r.value # Null
              THEN /\ apiKey' = r.value
                   /\ Step("getDiff", NoError, <<>>)
              ELSE /\ apiKey' = apiKey
                   /\ Step("promptApiKey", NoError,
                        (IF r.warned
                         THEN << Log("warning",
                                     Msg("Stored API key is invalid or corrupted. Please enter it again.", <<>>)) >>
                         ELSE <<>>)
                        \o << Log("warning",
                                  Msg("No API key found. Please enter your Gemini API key.", <<>>)) >>)
    /\ UNCHANGED << config, diff, execOut, exitCode, cnt, localVars, commits, created >>
    /\ UNCHANGED << genVars, late, envKey, envApiKey, run, lastStored >>

\* _promptForApiKey answered with a text that is not blank, then
\* _storeApiKey; a failure to store is thrown on to the catch block of run
EnterApiKey ==
    /\ pc = "promptApiKey"
    /\ \E input \in KeyInputs, iv \in Ivs, writeOk \in BOOLEAN :
         /\ Trim(input) # <<>>
         /\ LET k == Trim(input)
                st == storeApiKey(file, k, iv, envKey, writeOk)
            IN  /\ file' = st.file
                /\ trace' = Note(Note(trace, "keyPrompt"), "keyStore")
                /\ cnt' = Count(cnt, "keyPrompt")
                /\ IF st.ok
                   THEN /\ apiKey' = k
                        /\ lastStored' = [run |-> run, key |-> k, env |-> envKey]
                        /\ Step("getDiff", NoError,
                                << Log("success", Msg("API key stored successfully!", <<>>)) >>)
                   ELSE /\ RunCatch(PlainError(Msg("API key operation failed: ${error.message}",
                                                   <<st.error.message>>)))
                        /\ UNCHANGED << apiKey, lastStored >>
    /\ UNCHANGED << config, keyRead, diff, execOut, exitCode, localVars, commits, created >>
    /\ UNCHANGED << genVars, late, envKey, envApiKey, run >>

\* run: const diff = await GitOperations.getDiff(); a GitError goes to the
\* catch block of run
GetDiff ==
    /\ pc = "getDiff"
    /\ \E out \in ExecOutcomes :
         LET r == getDiff(out)
         IN  /\ execOut' = out
             /\ trace' = Note(trace, "getDiff")
             /\ cnt' = Count(cnt, "getDiff")
             /\ IF r.ok
                THEN /\ diff' = r.value
                     /\ Step("menu", NoError, <<>>)
                ELSE /\ RunCatch(r.error)
                     /\ UNCHANGED diff
    /\ UNCHANGED << config, apiKey, keyRead, exitCode, localVars, commits, created >>
    /\ UNCHANGED << genVars, late, storeVars >>

(***************************************************************************)
(* AIOperations.generateCommitMessage                                      *)
(***************************************************************************)
\* error texts of a rejected generateContent call
QuotaText == <<"q", "u", "o", "t", "a">>
QuotaInside == <<"4", "2", "9", " ", "q", "u", "o", "t", "a", "!">>
CapitalQuota == <<"Q", "u", "o", "t", "a">>
FetchFailed == <<"f", "e", "t", "c", "h">>
ServiceErrors == { QuotaText, QuotaInside, CapitalQuota, FetchFailed }

\* new Error("API Timeout")
ApiTimeout == <<"A", "P", "I", " ", "T", "i", "m", "e", "o", "u", "t">>

\* response texts of a fulfilled generateContent call
ExampleText ==
    << "1", ".", " ", "f", "e", "a", "t", ":", " ", "a", "d", "d", " ", "X", "\n",
       "2", ".", " ", "f", "i", "x", ":", " ", "c", "o", "r", "r", "e", "c", "t",
       " ", "Y", "\n" >>
ResponseTexts ==
    { <<"1", ".", " ", "a", "b">>,
      <<"H", "i", " ", "1", ".", " ", "f", "i", "x", ":", " ", "a", "\n",
        "2", ".", " ", "a", "a", "a", "a", "a", "a", "a", "a", "a">>,
      <<"n", "o", "n", "e">>,
      ExampleText }

\* a mutation of the catch block: the quota test is made after the retry test
onFailure_retryFirst(n, maxRetries, text) ==
    IF n + 1 = maxRetries
    THEN [attempts |-> n + 1, next |-> "throw",
          error |-> APIError(Msg("AI generation failed after ${attempts} attempts: ${error.message}",
                                 <<n + 1, text>>), FALSE)]
    ELSE [attempts |-> n + 1, next |-> "delay"]

\* a mutation of the catch block: attempts is not incremented
onFailure_noIncrement(n, maxRetries, text) ==
    IF Includes(text, QuotaText)
    THEN [attempts |-> n, next |-> "throw",
          error |-> APIError(Msg("API rate limit exceeded", <<>>), TRUE)]
    ELSE IF n = maxRetries
    THEN [attempts |-> n, next |-> "throw",
          error |-> APIError(Msg("AI generation failed after ${attempts} attempts: ${error.message}",
                                 <<n, text>>), FALSE)]
    ELSE [attempts |-> n, next |-> "delay"]

\* a mutation of the catch block: one attempt more than maxRetries is made
onFailure_oneMore(n, maxRetries, text) ==
    IF Includes(text, QuotaText)
    THEN [attempts |-> n + 1, next |-> "throw",
          error |-> APIError(Msg("API rate limit exceeded", <<>>), TRUE)]
    ELSE IF n + 1 = maxRetries + 1
    THEN [attempts |-> n + 1, next |-> "throw",
          error |-> APIError(Msg("AI generation failed after ${attempts} attempts: ${error.message}",
                                 <<n + 1, text>>), FALSE)]
    ELSE [attempts |-> n + 1, next |-> "delay"]

\* the catch block of generateCommitMessage, entered with attempts = n and
\* an error whose message is text
onFailure(n, maxRetries, text) ==
    IF Includes(text, QuotaText)
    THEN [attempts |-> n + 1, next |-> "throw",
          error |-> APIError(Msg("API rate limit exceeded", <<>>), TRUE)]
    ELSE IF n + 1 = maxRetries
    THEN [attempts |-> n + 1, next |-> "throw",
          error |-> APIError(Msg("AI generation failed after ${attempts} attempts: ${error.message}",
                                 <<n + 1, text>>), FALSE)]
    ELSE [attempts |-> n + 1, next |-> "delay"]

\* _handleGenerateChoice after generateCommitMessage returned msgs; undef
\* tells that it returned undefined, the loop having ended without a return
GenerateReturned(msgs, undef) ==
    /\ genResult' = [kind |-> IF undef THEN "undefined" ELSE "returned", value |-> msgs]
    /\ gpc' = "idle"
    /\ message' = <<>>
    /\ prefix' = <<>>
    /\ IF undef \/ Len(msgs) = 0
       THEN /\ Step("menu", NoError,
                    << Log("warning", Msg("No valid commit messages generated", <<>>)) >>)
            /\ messages' = <<>>
       ELSE /\ Step("select", NoError, <<>>)
            /\ messages' = msgs

\* _handleGenerateChoice after generateCommitMessage threw e: _handleError,
\* return null, and run continues with the menu
GenerateThrew(e) ==
    /\ genResult' = [kind |-> "threw", error |-> e]
    /\ gpc' = "idle"
    /\ Step("menu", e, << Log("error", handleError(e)) >>)
    /\ ResetLocals

\* the catch block having run on an error with message text
AttemptFailed(text) ==
    LET f == onFailure(attempts, config.maxRetries, text)
    IN  /\ attempts' = f.attempts
        /\ failures' = Append(failures, text)
        /\ IF f.next = "throw"
           THEN /\ GenerateThrew(f.error)
                /\ UNCHANGED waits
           ELSE /\ gpc' = "delay"
                /\ waits' = waits + 1
                /\ Step(pc, NoError, <<>>)
                /\ UNCHANGED << genResult, localVars >>

\* a mutation of the generate choice: the operator is asked for the key
\* whenever generate is chosen
MenuGenerate_promptsAgain ==
    /\ pc = "menu"
    /\ cnt.generate < MaxGenerations
    /\ trace' = Note(Note(trace, "menu"), "generate")
    /\ cnt' = Count(Count(cnt, "generate"), "keyPrompt")
    /\ attempts' = 0
    /\ waits' = 0
    /\ failures' = <<>>
    /\ response' = <<>>
    /\ IF 0 < config.maxRetries
       THEN /\ requests' = 1 /\ prompt' = buildPrompt(config, diff)
            /\ gpc' = "racing"
            /\ genResult' = NoResult
            /\ Step("generating", NoError, <<>>)
            /\ UNCHANGED localVars
       ELSE /\ requests' = 0 /\ prompt' = NoPrompt
            /\ GenerateReturned(<<>>, TRUE)
    /\ UNCHANGED << startVars, exitCode, commits, created, late, storeVars >>

\* _showMenu answered "generate": generateCommitMessage starts with
\* attempts = 0 and, if the loop condition holds, issues the first request
\* together with its timer
MenuGenerate ==
    /\ pc = "menu"
    /\ cnt.generate < MaxGenerations
    /\ trace' = Note(Note(trace, "menu"), "generate")
    /\ cnt' = Count(cnt, "generate")
    /\ attempts' = 0
    /\ waits' = 0
    /\ failures' = <<>>
    /\ response' = <<>>
    /\ IF 0 < config.maxRetries
       THEN /\ requests' = 1 /\ prompt' = buildPrompt(config, diff)
            /\ gpc' = "racing"
            /\ genResult' = NoResult
            /\ Step("generating", NoError, <<>>)
            /\ UNCHANGED localVars
       ELSE /\ requests' = 0 /\ prompt' = NoPrompt
            /\ GenerateReturned(<<>>, TRUE)
    /\ UNCHANGED << startVars, exitCode, commits, created, late, storeVars >>

\* the request settles first and is fulfilled: the response text is parsed
\* and returned; the timer stays armed
RequestFulfilled ==
    /\ gpc = "racing"
    /\ \E t \in ResponseTexts :
         /\ response' = t
         /\ GenerateReturned(parseMessages(t, config), FALSE)
    /\ late' = late \cup {"timer"}
    /\ UNCHANGED << attempts, requests, prompt, waits, failures >>
    /\ UNCHANGED << startVars, exitCode, auditVars, commits, created, storeVars >>

\* the request settles first and is rejected; the timer stays armed
RequestRejected ==
    /\ gpc = "racing"
    /\ \E text \in ServiceErrors : AttemptFailed(text)
    /\ late' = late \cup {"timer"}
    /\ UNCHANGED << requests, prompt, response >>
    /\ UNCHANGED << startVars, exitCode, auditVars, commits, created, storeVars >>

\* a mutation: a timeout ends the invocation at once, as a rate limit does
TimerFired_fatal ==
    /\ gpc = "racing"
    /\ attempts' = attempts + 1
    /\ failures' = Append(failures, ApiTimeout)
    /\ GenerateThrew(APIError(Msg("API rate limit exceeded", <<>>), TRUE))
    /\ late' = late \cup {"request"}
    /\ UNCHANGED << requests, prompt, response, waits >>
    /\ UNCHANGED << startVars, exitCode, auditVars, commits, created, storeVars >>

\* the timer fires first: the race rejects with "API Timeout"; the request
\* stays pending
TimerFired ==
    /\ gpc = "racing"
    /\ AttemptFailed(ApiTimeout)
    /\ late' = late \cup {"request"}
    /\ UNCHANGED << requests, prompt, response >>
    /\ UNCHANGED << startVars, exitCode, auditVars, commits, created, storeVars >>

\* a mutation: the promise of the retryDelay wait is never resolved
RetryDelayElapsed_never ==
    /\ gpc = "delay"
    /\ UNCHANGED vars

\* the retryDelay timer fires: the loop condition is tested and the next
\* request is issued together with its timer
RetryDelayElapsed ==
    /\ gpc = "delay"
    /\ IF attempts < config.maxRetries
       THEN /\ requests' = requests + 1 /\ prompt' = buildPrompt(config, diff)
            /\ gpc' = "racing"
            /\ Step(pc, NoError, <<>>)
            /\ UNCHANGED << genResult, localVars >>
       ELSE /\ requests' = requests /\ prompt' = prompt
            /\ GenerateReturned(<<>>, TRUE)
    /\ UNCHANGED << attempts, waits, failures, response >>
    /\ UNCHANGED << startVars, exitCode, auditVars, commits, created, late, storeVars >>

\* a mutation: the catch block also runs for a request that is rejected
\* after its timer has fired
LateRequestSettles_counted ==
    /\ "request" \in late
    /\ late' = late \ {"request"}
    /\ attempts' = attempts + 1
    /\ UNCHANGED << stepVars, startVars, exitCode, auditVars, localVars, commits, created,
                    gpc, requests, prompt, waits, failures, response, genResult, storeVars >>

\* the requests whose race the timer won settle: nobody listens
LateRequestSettles ==
    /\ "request" \in late
    /\ late' = late \ {"request"}
    /\ UNCHANGED << stepVars, startVars, exitCode, auditVars, localVars, commits, created,
                    genVars, storeVars >>

\* the timers whose race the request won fire: the race is already settled
LateTimerFires ==
    /\ "timer" \in late
    /\ late' = late \ {"timer"}
    /\ UNCHANGED << stepVars, startVars, exitCode, auditVars, localVars, commits, created,
                    genVars, storeVars >>

(***************************************************************************)
(* Gitopus.run: the menu loop                                              *)
(***************************************************************************)
\* the commit prefix catalog
Chars_feat == <<"f", "e", "a", "t">>
Chars_fix == <<"f", "i", "x">>
Chars_docs == <<"d", "o", "c", "s">>
Chars_style == <<"s", "t", "y", "l", "e">>
Chars_refactor == <<"r", "e", "f", "a", "c", "t", "o", "r">>
Chars_test == <<"t", "e", "s", "t">>
Chars_chore == <<"c", "h", "o", "r", "e">>
prefixes ==
    << Chars_feat, Chars_fix, Chars_docs, Chars_style, Chars_refactor,
       Chars_test, Chars_chore >>

\* what the operator types at an input prompt
Inputs == StringsUpTo({"a"}, MaxInputLen)

\* the validate function of the manual message prompt
validManual(input, pfx, cfg) ==
    LET remainingLength == cfg.maxCommitLength - (Len(pfx) + 2)
    IN  /\ ~(Len(input) < cfg.minMessageLength)
        /\ ~(Len(input) > remainingLength)

\* the validate function of the edit prompt
validEdit(input, cfg) ==
    /\ ~(Len(input) < cfg.minMessageLength)
    /\ ~(Len(input) > cfg.maxCommitLength)

\* _showMenu answered "manual": the commit type list is shown
MenuManual ==
    /\ pc = "menu"
    /\ Step("prefix", NoError, <<>>)
    /\ trace' = Note(trace, "menu")
    /\ ResetGenerator
    /\ UNCHANGED << startVars, exitCode, cnt, localVars, commits, created, late, storeVars >>

\* _showMenu answered "exit": the loop is left and run returns
MenuExit ==
    /\ pc = "menu"
    /\ Step("exited", NoError, << Log("warning", Msg("Process terminated!", <<>>)) >>)
    /\ trace' = Note(trace, "menu")
    /\ ResetGenerator
    /\ UNCHANGED << startVars, exitCode, cnt, localVars, commits, created, late, storeVars >>

\* a mutation of _handleGenerateChoice: "Return to menu" opens the commit
\* type list
SelectMessage_manualFallback ==
    /\ pc = "select"
    /\ \/ \E i \in 1..Len(messages) :
            /\ message' = messages[i]
            /\ Step("askEdit", NoError, <<>>)
            /\ UNCHANGED << messages, prefix >>
       \/ /\ Step("prefix", NoError, <<>>)
          /\ ResetLocals
    /\ ResetGenerator
    /\ UNCHANGED << startVars, exitCode, auditVars, commits, created, late, storeVars >>

\* the candidate list answered: a candidate, or "Return to menu"
SelectMessage ==
    /\ pc = "select"
    /\ \/ \E i \in 1..Len(messages) :
            /\ message' = messages[i]
            /\ Step("askEdit", NoError, <<>>)
            /\ UNCHANGED << messages, prefix >>
       \/ /\ Step("menu", NoError, <<>>)
          /\ ResetLocals
    /\ ResetGenerator
    /\ UNCHANGED << startVars, exitCode, auditVars, commits, created, late, storeVars >>

\* _editMessageIfRequested: "Would you like to edit this message?"; run
\* goes on to _confirmCommit with the message returned
AskEdit ==
    /\ pc = "askEdit"
    /\ \E editMessage \in BOOLEAN :
         Step(IF editMessage THEN "editInput" ELSE "confirm", NoError, <<>>)
    /\ UNCHANGED << startVars, exitCode, auditVars, localVars, commits, created, genVars,
                    late, storeVars >>

\* the edit prompt answered with a text its validator accepts; an empty
\* answer stands for the default, the selected message
EditInput ==
    /\ pc = "editInput"
    /\ \E input \in Inputs \cup {message} :
         /\ validEdit(input, config)
         /\ message' = input
         /\ Step(IF input = <<>> THEN "menu" ELSE "confirm", NoError, <<>>)
    /\ UNCHANGED << startVars, exitCode, auditVars, messages, prefix, commits, created,
                    genVars, late, storeVars >>

\* a mutation of the loop of run: "exit" in the commit type list leaves the
\* loop
SelectPrefix_leavesLoop ==
    /\ pc = "prefix"
    /\ \/ \E i \in 1..Len(prefixes) :
            /\ prefix' = prefixes[i]
            /\ Step("manualInput", NoError, <<>>)
       \/ /\ Step("exited", NoError, << Log("warning", Msg("Process terminated!", <<>>)) >>)
          /\ UNCHANGED prefix
    /\ UNCHANGED << startVars, exitCode, auditVars, messages, message, commits, created,
                    genVars, late, storeVars >>

\* the commit type list answered: a prefix, or "exit"
SelectPrefix ==
    /\ pc = "prefix"
    /\ \/ \E i \in 1..Len(prefixes) :
            /\ prefix' = prefixes[i]
            /\ Step("manualInput", NoError, <<>>)
       \/ /\ Step("menu", NoError, << Log("warning", Msg("Process terminated!", <<>>)) >>)
          /\ UNCHANGED prefix
    /\ UNCHANGED << startVars, exitCode, auditVars, messages, message, commits, created,
                    genVars, late, storeVars >>

\* the manual message prompt answered with a text its validator accepts:
\* `${prefix}: ${message}`
ManualInput ==
    /\ pc = "manualInput"
    /\ \E input \in Inputs :
         /\ validManual(input, prefix, config)
         /\ message' = prefix \o <<":", " ">> \o input
    /\ Step("confirm", NoError, <<>>)
    /\ UNCHANGED << startVars, exitCode, auditVars, messages, prefix, commits, created,
                    genVars, late, storeVars >>

\* _confirmCommit answered
ConfirmCommit ==
    /\ pc = "confirm"
    /\ \E confirmCommit \in BOOLEAN :
         IF confirmCommit
         THEN /\ Step("commit", NoError, <<>>)
              /\ messages' = <<>>
              /\ prefix' = <<>>
              /\ UNCHANGED message
         ELSE /\ Step("menu", NoError, <<>>)
              /\ ResetLocals
    /\ UNCHANGED << startVars, exitCode, auditVars, commits, created, genVars, late, storeVars >>

\* a mutation of the loop of run: no break after a commit, the menu is
\* shown again
Commit_noBreak ==
    /\ pc = "commit"
    /\ commits' = Append(commits, message)
    /\ message' = <<>>
    /\ trace' = Note(trace, "commit")
    /\ cnt' = Count(cnt, "commit")
    /\ \E gitOk \in BOOLEAN, value \in ShellValues :
         LET r == commit(message, value, gitOk)
         IN  IF r.ok
             THEN /\ created' = Append(created, r.created)
                  /\ Step("menu", NoError,
                          << Log("success", Msg("Changes committed successfully!", <<>>)) >>)
             ELSE /\ created' = created
                  /\ RunCatch(r.error)
    /\ UNCHANGED << startVars, exitCode, messages, prefix, genVars, late, storeVars >>

\* await GitOperations.commit(message); a GitError goes to the catch block
\* of run
Commit ==
    /\ pc = "commit"
    /\ commits' = Append(commits, message)
    /\ message' = <<>>
    /\ trace' = Note(trace, "commit")
    /\ cnt' = Count(cnt, "commit")
    /\ \E gitOk \in BOOLEAN, value \in ShellValues :
         LET r == commit(message, value, gitOk)
         IN  IF r.ok
             THEN /\ created' = Append(created, r.created)
                  /\ Step("postCommit", NoError,
                          << Log("success", Msg("Changes committed successfully!", <<>>)) >>)
             ELSE /\ created' = created
                  /\ RunCatch(r.error)
    /\ UNCHANGED << startVars, exitCode, messages, prefix, genVars, late, storeVars >>

\* a mutation of _handlePostCommit: after a failed push the menu is shown
\* again
PostCommitPush_retry ==
    /\ pc = "postCommit"
    /\ trace' = Note(trace, "push")
    /\ cnt' = Count(cnt, "push")
    /\ \E ok \in BOOLEAN :
         IF ok
         THEN Step("exited", NoError,
                   << Log("success", Msg("Changes pushed successfully!", <<>>)) >>)
         ELSE Step("postCommit", NoError,
                   << Log("error", handleError(GitError(Msg("Push failed: ${error.message}",
                                                            <<"Command failed">>)))) >>)
    /\ UNCHANGED << startVars, exitCode, localVars, commits, created, genVars, late, storeVars >>

\* _handlePostCommit answered "push"; a GitError is logged by the catch
\* block of _handlePostCommit, and run leaves the loop either way
PostCommitPush ==
    /\ pc = "postCommit"
    /\ trace' = Note(trace, "push")
    /\ cnt' = Count(cnt, "push")
    /\ \E ok \in BOOLEAN :
         IF ok
         THEN Step("exited", NoError,
                   << Log("success", Msg("Changes pushed successfully!", <<>>)) >>)
         ELSE RunCatch(GitError(Msg("Push failed: ${error.message}", <<"Command failed">>)))
    /\ UNCHANGED << startVars, exitCode, localVars, commits, created, genVars, late, storeVars >>

\* _handlePostCommit answered "status" or "log": the command's output is
\* printed and the menu shown again; a failing command is logged and ends
\* the session
PostCommitView ==
    /\ pc = "postCommit"
    /\ cnt.view < MaxViews
    /\ \E action \in {"status", "log"}, ok \in BOOLEAN :
         /\ trace' = Note(trace, action)
         /\ IF ok
            THEN Step("postCommit", NoError, <<>>)
            ELSE RunCatch(PlainError(Msg("Command failed", <<>>)))
    /\ cnt' = Count(cnt, "view")
    /\ UNCHANGED << startVars, exitCode, localVars, commits, created, genVars, late, storeVars >>

\* a mutation of _handlePostCommit: "exit" pushes before it terminates
PostCommitExit_pushes ==
    /\ pc = "postCommit"
    /\ Step("exited", NoError, << Log("warning", Msg("Process terminated!", <<>>)) >>)
    /\ trace' = Note(trace, "push")
    /\ cnt' = Count(cnt, "push")
    /\ UNCHANGED << startVars, exitCode, localVars, commits, created, genVars, late, storeVars >>

\* _handlePostCommit answered "exit"
PostCommitExit ==
    /\ pc = "postCommit"
    /\ Step("exited", NoError, << Log("warning", Msg("Process terminated!", <<>>)) >>)
    /\ UNCHANGED << startVars, exitCode, auditVars, localVars, commits, created, genVars,
                    late, storeVars >>

(***************************************************************************)
(* Between runs                                                            *)
(***************************************************************************)
\* the operator sets or unsets ENCRYPTION_KEY before the next run
ChangePassphrase ==
    /\ pc = "exited"
    /\ run < MaxRuns
    /\ envKey' \in {"", "other-passphrase"} \ {envKey}
    /\ UNCHANGED << stepVars, startVars, exitCode, auditVars, localVars, commits, created,
                    genVars, late, file, envApiKey, run, lastStored >>

\* the tool is started again once the process has ended
NewRun ==
    /\ pc = "exited"
    /\ run < MaxRuns
    /\ late = {}
    /\ run' = run + 1
    /\ Step("start", NoError, <<>>)
    /\ config' = EmptyObject
    /\ apiKey' = Null
    /\ keyRead' = Null
    /\ diff' = <<>>
    /\ execOut' = [ok |-> FALSE, error |-> "not run"]
    /\ exitCode' = 0
    /\ trace' = <<>>
    /\ cnt' = [op \in Counted |-> 0]
    /\ ResetLocals
    /\ commits' = <<>>
    /\ created' = <<>>
    /\ ResetGenerator
    /\ UNCHANGED << late, file, envKey, envApiKey, lastStored >>

(***************************************************************************)
(* Specifications                                                          *)
(***************************************************************************)
\* one run of the tool, from start-up to the end of the process
Next ==
    \/ CheckRepository
    \/ LoadConfig
    \/ ReadApiKey
    \/ EnterApiKey
    \/ GetDiff
    \/ MenuGenerate
    \/ RequestFulfilled
    \/ RequestRejected
    \/ TimerFired
    \/ RetryDelayElapsed
    \/ LateRequestSettles
    \/ LateTimerFires
    \/ MenuManual
    \/ MenuExit
    \/ SelectMessage
    \/ AskEdit
    \/ EditInput
    \/ SelectPrefix
    \/ ManualInput
    \/ ConfirmCommit
    \/ Commit
    \/ PostCommitPush
    \/ PostCommitView
    \/ PostCommitExit

Spec == Init /\ [][Next]_vars

\* consecutive runs in which the operator leaves at the main menu
NextRuns ==
    \/ CheckRepository
    \/ LoadConfig
    \/ ReadApiKey
    \/ EnterApiKey
    \/ GetDiff
    \/ MenuExit
    \/ ChangePassphrase
    \/ NewRun

SpecRuns == Init /\ [][NextRuns]_vars


\* _parseMessages applied to one response text
ParseAlphabet == {"1", ".", " ", "\n", "a"}
ParseTexts == StringsUpTo(ParseAlphabet, MaxTextLen) \cup ResponseTexts
ParseConfigs ==
    { Spread(DEFAULT_CONFIG, o) :
        o \in { EmptyObject, [maxCommitLength |-> 1], [maxCommitLength |-> 2],
                [maxCommitLength |-> 8] } }

InitParse ==
    /\ file = AbsentFile
    /\ envKey = ""
    /\ envApiKey = Null
    /\ run = 1
    /\ lastStored = NoStore
    /\ FreshSession
    /\ FreshGenerator
    /\ late = {}

\* the response text arrives
ParseReceive ==
    /\ pc = "start"
    /\ \E t \in ParseTexts, c \in ParseConfigs :
         /\ response' = t
         /\ config' = c
    /\ pc' = "parse"
    /\ UNCHANGED << err, logged, apiKey, keyRead, diff, execOut, exitCode,
                    auditVars, localVars, commits, created, gpc, attempts, requests, prompt, waits,
                    failures, genResult, late, storeVars >>

\* return this._parseMessages(result.response.text())
ParseStep ==
    /\ pc = "parse"
    /\ messages' = parseMessages(response, config)
    /\ pc' = "parsed"
    /\ UNCHANGED << err, logged, startVars, exitCode, auditVars, message, prefix,
                    commits, created, genVars, late, storeVars >>

NextParse == ParseReceive \/ ParseStep

SpecParse == InitParse /\ [][NextParse]_vars


\* Config.encrypt and Config.decrypt applied to one text: the blob encrypt
\* returned is kept in file, the blob handed to decrypt is config.apiKey
CryptTexts == { <<"z">>, <<"A", "I">>, <<"A", "I", "z">> }
\* what is added, modulo 256, to a byte that is changed
ByteChanges == {1, 16, 128, 255}
OtherPassphrase(env) == IF env = "" THEN "other-passphrase" ELSE ""

InitCrypt ==
    /\ file = AbsentFile
    /\ envKey \in {"", "other-passphrase"}
    /\ envApiKey = Null
    /\ run = 1
    /\ lastStored = NoStore
    /\ FreshSession
    /\ FreshGenerator
    /\ late = {}

\* const encrypted = Config.encrypt(apiKey)
CryptEncrypt ==
    /\ pc = "start"
    /\ \E k \in CryptTexts, iv \in Ivs :
         LET blob == encrypt(k, iv, envKey)
         IN  /\ apiKey' = k
             /\ file' = JsonFile([apiKey |-> blob])
             /\ config' = [apiKey |-> blob]
             /\ lastStored' = [run |-> run, key |-> k, env |-> envKey]
    /\ pc' = "encrypted"
    /\ UNCHANGED << err, logged, keyRead, diff, execOut, exitCode, auditVars,
                    localVars, commits, created, genVars, late, envKey, envApiKey, run >>

\* one character of the base64 text is replaced before it is decrypted
CryptAlterChar ==
    /\ pc = "encrypted"
    /\ \E i \in 1..Len(config.apiKey), c \in 0..64 :
         /\ c # config.apiKey[i]
         /\ config' = [apiKey |-> [config.apiKey EXCEPT ![i] = c]]
    /\ pc' = "altered"
    /\ UNCHANGED << err, logged, apiKey, keyRead, diff, execOut, exitCode,
                    auditVars, localVars, commits, created, genVars, late, storeVars >>

\* one byte of iv, tag or ciphertext is replaced before it is decrypted
CryptAlterByte ==
    /\ pc = "encrypted"
    /\ LET bytes == Base64Decode(config.apiKey)
       IN  \E i \in 1..Len(bytes), d \in ByteChanges :
             config' = [apiKey |-> Base64Encode([bytes EXCEPT ![i] = (@ + d) % 256])]
    /\ pc' = "altered"
    /\ UNCHANGED << err, logged, apiKey, keyRead, diff, execOut, exitCode,
                    auditVars, localVars, commits, created, genVars, late, storeVars >>

\* process.env.ENCRYPTION_KEY is not what it was when the text was encrypted
CryptOtherPassphrase ==
    /\ pc \in {"encrypted", "altered"}
    /\ envKey = lastStored.env
    /\ envKey' = OtherPassphrase(envKey)
    /\ UNCHANGED << stepVars, startVars, exitCode, auditVars, localVars, commits, created,
                    genVars, late, file, envApiKey, run, lastStored >>

\* Config.decrypt(config.apiKey): the plaintext returned or the error thrown
CryptDecrypt ==
    /\ pc \in {"encrypted", "altered"}
    /\ LET r == decrypt(config.apiKey, envKey)
       IN  IF r.ok
           THEN /\ keyRead' = r.value
                /\ err' = NoError
           ELSE /\ keyRead' = Null
                /\ err' = r.error
    /\ pc' = "decrypted"
    /\ UNCHANGED << logged, config, apiKey, diff, execOut, exitCode, auditVars,
                    localVars, commits, created, genVars, late, storeVars >>

NextCrypt ==
    \/ CryptEncrypt
    \/ CryptAlterChar
    \/ CryptAlterByte
    \/ CryptOtherPassphrase
    \/ CryptDecrypt

SpecCrypt == InitCrypt /\ [][NextCrypt]_vars


\* Config.load at start-up on configuration files that persist any subset
\* of the default keys, an apiKey and a key the tool does not know
LoadKeys == (DOMAIN DEFAULT_CONFIG) \cup {"apiKey", "theme"}
LoadFull ==
    [maxCommitLength : {0, 5}, minMessageLength : {0, 5}, apiTimeout : {0, 5},
     maxRetries : {0, 5}, retryDelay : {0, 5}, configVersion : {"0.9.0", "1.0.0"},
     apiKey : {StoredBlob, CorruptBlob}, theme : {0, 5}]
LoadObjects == { [k \in ks |-> o[k]] : o \in LoadFull, ks \in SUBSET LoadKeys }
LoadFiles == { AbsentFile, UnparsableFile } \cup { JsonFile(o) : o \in LoadObjects }

InitLoad ==
    /\ file \in LoadFiles
    /\ envKey = ""
    /\ envApiKey = Null
    /\ run = 1
    /\ lastStored = NoStore
    /\ FreshSession
    /\ FreshGenerator
    /\ late = {}

NextLoad == CheckRepository \/ LoadConfig

SpecLoad == InitLoad /\ [][NextLoad]_vars


\* GitOperations.commit on the messages _handleChoice can return: texts of
\* the service or of the operator, trimmed and not empty
CommitAlphabet == {"a", " ", "\"", "$", Backtick, "\\"}
CommitMessages ==
    { m \in StringsUpTo(CommitAlphabet, MaxTextLen) : m # <<>> /\ Trim(m) = m }

\* const message = await this._handleChoice(choice, diff)
MessageChosen ==
    /\ pc = "start"
    /\ message' \in CommitMessages
    /\ config' = DEFAULT_CONFIG
    /\ Step("confirm", NoError, <<>>)
    /\ UNCHANGED << apiKey, keyRead, diff, execOut, exitCode, auditVars, messages,
                    prefix, commits, created, genVars, late, storeVars >>

NextCommit == MessageChosen \/ ConfirmCommit \/ Commit

SpecCommit == InitParse /\ [][NextCommit]_vars


\* start-up with GEMINI_API_KEY set or unset in the environment, the
\* variable src/test.js takes the key from
EnvApiKeys == { Null, <<"A", "I", "z", "a">> }

InitOverride ==
    /\ file \in InitFiles
    /\ envKey \in {"", "other-passphrase"}
    /\ envApiKey \in EnvApiKeys
    /\ run = 1
    /\ lastStored = NoStore
    /\ FreshSession
    /\ FreshGenerator
    /\ late = {}

NextOverride ==
    \/ CheckRepository
    \/ LoadConfig
    \/ ReadApiKey
    \/ EnterApiKey
    \/ GetDiff
    \/ MenuExit

SpecOverride == InitOverride /\ [][NextOverride]_vars


\* the generate path of a run, with the timers of setTimeout firing in the
\* end: the timer of an attempt while the race is undecided, and the timer
\* of the retryDelay wait
NextLive ==
    \/ CheckRepository
    \/ LoadConfig
    \/ ReadApiKey
    \/ EnterApiKey
    \/ GetDiff
    \/ MenuGenerate
    \/ RequestFulfilled
    \/ RequestRejected
    \/ TimerFired
    \/ RetryDelayElapsed
    \/ LateRequestSettles
    \/ LateTimerFires
    \/ SelectMessage
    \/ MenuExit

SpecLive ==
    /\ Init
    /\ [][NextLive]_vars
    /\ WF_vars(TimerFired)
    /\ WF_vars(RetryDelayElapsed)


(***************************************************************************)
(* Properties                                                              *)
(***************************************************************************)
NoQuota(fs) == \A i \in 1..Len(fs) : ~Includes(fs[i], QuotaText)
ConfigLoaded == "maxRetries" \in DOMAIN config

\* C1: with maxRetries = N >= 1, when every attempt fails with an error
\* whose text does not contain "quota" (timeouts included), exactly N
\* requests are issued, a retryDelay wait lies between consecutive requests
\* (N - 1 waits, none after the last failure), and the call fails with an
\* APIError whose isRateLimit is false and whose message reports N attempts
\* and the last error; never are more than N requests issued.
C1_RetriesExhausted ==
    ConfigLoaded =>
        LET N == config.maxRetries
        IN  /\ requests <= N
            /\ (gpc = "racing" => waits = requests - 1)
            /\ (gpc = "delay" => waits = requests)
            /\ ( (N >= 1 /\ Len(failures) = N /\ NoQuota(failures)) =>
                    /\ gpc = "idle"
                    /\ genResult.kind = "threw"
                    /\ requests = N
                    /\ waits = N - 1
                    /\ genResult.error =
                         APIError(Msg("AI generation failed after ${attempts} attempts: ${error.message}",
                                      <<N, failures[N]>>), FALSE) )
            /\ ( (genResult.kind = "threw" /\ ~genResult.error.isRateLimit) =>
                    Len(failures) = N /\ NoQuota(failures) )

\* three attempts, a timeout among them, end in the APIError
C1_Witness ==
    /\ genResult.kind = "threw"
    /\ NoQuota(failures)
    /\ config.maxRetries = 3
    /\ requests = 3
    /\ \E i \in 1..Len(failures) : failures[i] = ApiTimeout
    /\ failures[3] = CapitalQuota

\* C2: if attempt k (1 <= k <= maxRetries) fails with an error whose text
\* contains "quota", the call fails at once with an APIError whose
\* isRateLimit is true: no request k + 1 and no retryDelay wait follow.
C2_QuotaFailsAtOnce ==
    (Len(failures) >= 1 /\ Includes(failures[Len(failures)], QuotaText)) =>
        LET k == Len(failures)
        IN  /\ gpc = "idle"
            /\ genResult.kind = "threw"
            /\ genResult.error = APIError(Msg("API rate limit exceeded", <<>>), TRUE)
            /\ requests = k
            /\ waits = k - 1
            /\ pc = "menu"

\* the quota error comes at the second of three attempts, inside a longer text
C2_Witness ==
    /\ Len(failures) = 2
    /\ failures[2] = QuotaInside
    /\ config.maxRetries = 3
    /\ genResult.kind = "threw"
    /\ genResult.error.isRateLimit

\* C3: if attempts 1..k-1 fail with non-quota errors and attempt k
\* (k <= maxRetries) succeeds, the call returns the parsed candidates of
\* the k-th response, having issued exactly k requests and k - 1 waits.
C3_SuccessAfterFailures ==
    genResult.kind = "returned" =>
        LET k == Len(failures) + 1
        IN  /\ NoQuota(failures)
            /\ attempts = k - 1
            /\ requests = k
            /\ waits = k - 1
            /\ k <= config.maxRetries
            /\ genResult.value = parseMessages(response, config)
            /\ (Len(genResult.value) > 0 => messages = genResult.value /\ pc = "select")

\* two failures, then the example response at the third attempt
C3_Witness ==
    /\ genResult.kind = "returned"
    /\ Len(failures) = 2
    /\ requests = 3
    /\ response = ExampleText
    /\ Len(messages) = 2

\* the trimmed segments of a response text
Segments(t) == MapTrim(Split(t))

\* f maps the positions of a to positions of b, in order
IsEmbedding(f, a, b) ==
    /\ \A i \in 1..Len(a) : a[i] = b[f[i]]
    /\ \A i, j \in 1..Len(a) : i < j => f[i] < f[j]

\* C4: every string returned by _parseMessages has a length L with
\* 0 < L <= maxCommitLength and is one whole trimmed segment of the
\* response; a segment longer than maxCommitLength is left out, never
\* shortened, and the candidates keep the order of their segments.
C4_CandidatesAreWholeSegments ==
    pc = "parsed" =>
        LET segs == Segments(response)
        IN  /\ \A i \in 1..Len(messages) :
                 /\ 0 < Len(messages[i])
                 /\ Len(messages[i]) <= config.maxCommitLength
            /\ \E f \in [1..Len(messages) -> 1..Len(segs)] :
                 IsEmbedding(f, messages, segs)
            /\ \A j \in 2..Len(segs) :
                 (0 < Len(segs[j]) /\ Len(segs[j]) <= config.maxCommitLength)
                    => \E i \in 1..Len(messages) : messages[i] = segs[j]

\* a segment of 6 characters is kept whole and one of 9 is left out
C4_Witness ==
    /\ pc = "parsed"
    /\ config.maxCommitLength = 8
    /\ \E j \in 2..Len(Segments(response)) : Len(Segments(response)[j]) = 9
    /\ messages = << <<"f", "i", "x", ":", " ", "a">> >>

\* the positions of the segments that pass the filter, from position from on
KeptFrom(segs, from, maxLen) ==
    { j \in from..Len(segs) : Len(segs[j]) > 0 /\ Len(segs[j]) <= maxLen }

\* msgs holds exactly the segments at the positions kept, in order
IsSelection(msgs, segs, kept) ==
    /\ Len(msgs) = Cardinality(kept)
    /\ \A j \in kept : msgs[Cardinality({k \in kept : k <= j})] = segs[j]

\* C5 as stated: _parseMessages returns, in order, exactly the trimmed
\* segments of the split, minus those that are empty or too long; no other
\* segment is dropped.
C5_Original ==
    pc = "parsed" =>
        IsSelection(messages, Segments(response),
                    KeptFrom(Segments(response), 1, config.maxCommitLength))

\* C5, amended: the segment before the first occurrence of the pattern is
\* dropped whatever it holds; of the segments after it, exactly those that
\* are empty or too long are dropped, and the order is kept; the example
\* text gives "feat: add X" and "fix: correct Y".
C5_SegmentsAfterTheFirst ==
    pc = "parsed" =>
        /\ IsSelection(messages, Segments(response),
                       KeptFrom(Segments(response), 2, config.maxCommitLength))
        /\ (response = ExampleText /\ config.maxCommitLength = 70 =>
              messages = << <<"f", "e", "a", "t", ":", " ", "a", "d", "d", " ", "X">>,
                            <<"f", "i", "x", ":", " ", "c", "o", "r", "r", "e", "c", "t", " ", "Y">> >>)

\* a text with a first segment that would pass the filter, and a candidate
C5_Witness ==
    /\ pc = "parsed"
    /\ response = <<"a", "1", ".", " ", "a">>
    /\ config.maxCommitLength = 2
    /\ messages = << <<"a">> >>

\* C6 as stated: every message passed to GitOperations.commit has a length
\* between minMessageLength and maxCommitLength inclusive.
C6_CommitLengthBounds ==
    \A i \in 1..Len(commits) :
        /\ Len(commits[i]) >= config.minMessageLength
        /\ Len(commits[i]) <= config.maxCommitLength

\* C7: getDiff never returns an empty or whitespace-only string: an output
\* that is empty after trimming raises GitError("No staged changes found"),
\* a failing git process raises a GitError wrapping its error, and a
\* success returns the output unmodified.
C7_GetDiff ==
    /\ (diff # <<>> =>
          /\ execOut.ok
          /\ diff = execOut.stdout
          /\ Trim(diff) # <<>>)
    /\ (cnt.getDiff >= 1 /\ execOut.ok /\ Trim(execOut.stdout) # <<>> => diff = execOut.stdout)
    /\ (cnt.getDiff >= 1 /\ execOut.ok /\ Trim(execOut.stdout) = <<>> =>
          /\ diff = <<>>
          /\ pc = "exited"
          /\ err = GitError(Msg("No staged changes found", <<>>)))
    /\ (cnt.getDiff >= 1 /\ ~execOut.ok =>
          /\ diff = <<>>
          /\ pc = "exited"
          /\ err = GitError(Msg("Failed to get git diff: ${error.message}", <<execOut.error>>)))

\* a whitespace-only output was refused
C7_Witness ==
    /\ cnt.getDiff = 1
    /\ execOut.ok
    /\ execOut.stdout = <<" ", "\n">>
    /\ err = GitError(Msg("No staged changes found", <<>>))

\* C8: if checkRepository fails at start-up, "Not a git repository" is
\* logged and the process ends with exit code 1, with no configuration file
\* access, no API key prompt, no diff fetch, no menu and no commit.
C8_NotARepository ==
    (err.name = "GitError" /\ err.message.text = "Not a git repository") =>
        /\ pc = "exited"
        /\ exitCode = 1
        /\ logged = << Log("error", Msg("Not a git repository", <<>>)) >>
        /\ trace = << "checkRepository" >>
        /\ \A op \in Counted : cnt[op] = 0
        /\ config = EmptyObject
        /\ commits = <<>>

C8_Witness ==
    /\ pc = "exited"
    /\ err.name = "GitError"
    /\ err.message.text = "Not a git repository"
    /\ file = UnparsableFile

\* C9 as stated: if Config.load fails at start-up on a file that exists but
\* cannot be parsed, the process ends with exit code 1 without showing the
\* menu.
C9_ConfigErrorExitCode ==
    (file = UnparsableFile /\ err.name = "Error") =>
        /\ pc = "exited"
        /\ exitCode = 1
        /\ \A i \in 1..Len(trace) : trace[i] # "menu"

\* C10: after _storeApiKey(k) succeeded in an earlier run, with the
\* passphrase as it was then, _readApiKey returns exactly k and the
\* operator is not prompted for a key.
C10_StoredKeyReadBack ==
    [][ ( /\ pc = "readApiKey"
          /\ pc' # "readApiKey"
          /\ lastStored.run >= 1
          /\ lastStored.run < run
          /\ lastStored.env = envKey ) =>
            /\ keyRead' = lastStored.key
            /\ apiKey' = lastStored.key
            /\ cnt'.keyPrompt = 0
            /\ pc' = "getDiff" ]_vars

\* the key typed with blanks around it in the first run is read in the second
C10_Witness ==
    /\ run = 2
    /\ lastStored.run = 1
    /\ lastStored.env = "other-passphrase"
    /\ envKey = "other-passphrase"
    /\ keyRead = <<"z">>
    /\ pc = "menu"

\* the blob handed to decrypt differs from encrypt's output in one place
OneCharChanged(x, y) ==
    /\ Len(x) = Len(y)
    /\ Cardinality({ i \in 1..Len(x) : x[i] # y[i] }) = 1
SameBytes == Base64Decode(config.apiKey) = Base64Decode(file.data.apiKey)

\* C11 as stated: decrypt of a blob that differs from an encrypt output in
\* any single character, or under another passphrase, raises an error and
\* returns no plaintext.
C11_Original ==
    ( /\ pc = "decrypted"
      /\ \/ OneCharChanged(config.apiKey, file.data.apiKey)
         \/ envKey # lastStored.env ) =>
        /\ err.name = "Error"
        /\ keyRead = Null

\* C11: decrypt raises an error and returns no plaintext when the bytes the
\* blob decodes to (iv, tag, ciphertext) differ from those of the encrypt
\* output, or when the passphrase is another one; when it returns, it
\* returns the text that was encrypted (a changed character that decodes to
\* the same bytes is not detected).
C11_TamperedBytesRejected ==
    pc = "decrypted" =>
        /\ (~SameBytes \/ envKey # lastStored.env) =>
              (err.name = "Error" /\ keyRead = Null)
        /\ (SameBytes /\ envKey = lastStored.env) =>
              (err = NoError /\ keyRead = apiKey)

\* one changed byte of the ciphertext under the right passphrase is refused
C11_Witness ==
    /\ pc = "decrypted"
    /\ envKey = lastStored.env
    /\ apiKey = <<"A", "I">>
    /\ ~SameBytes
    /\ Base64Decode(config.apiKey)[IvLen + TagLen + 1]
         # Base64Decode(file.data.apiKey)[IvLen + TagLen + 1]
    /\ err.name = "Error"

\* C12: whenever an operation of the tool writes the apiKey field of the
\* configuration file, what it writes is an output of Config.encrypt for
\* the key the operator entered, under the passphrase in force, and is not
\* the entered key itself.
C12_OnlyEncryptedKeyWritten ==
    [][ ( /\ HasApiKey(file'.data)
          /\ (HasApiKey(file.data) => file'.data.apiKey # file.data.apiKey) ) =>
            /\ apiKey' # Null
            /\ file'.data.apiKey # AsStoredText(apiKey')
            /\ \E iv \in Ivs : file'.data.apiKey = encrypt(apiKey', iv, envKey)
            /\ decrypt(file'.data.apiKey, envKey) = [ok |-> TRUE, value |-> apiKey'] ]_vars

\* a key entered in the second run has replaced the one stored in the first
C12_Witness ==
    /\ run = 2
    /\ lastStored.run = 2
    /\ pc = "getDiff"
    /\ HasApiKey(file.data)
    /\ \E iv \in Ivs : file.data.apiKey = encrypt(apiKey, iv, envKey)

\* the stored key is there and Config.decrypt throws on it
Undecryptable == HasApiKey(file.data) /\ ~decrypt(file.data.apiKey, envKey).ok
StagedDiff(out) == out.ok /\ Trim(out.stdout) # <<>>

\* C13: a stored apiKey that cannot be decrypted does not end the run:
\* _readApiKey returns null, the operator is prompted, the key entered then
\* replaces the unreadable one in the file, encrypted (unless the file
\* cannot be written), and with staged changes the run reaches the main menu.
C13_UnreadableKeyReplaced ==
    [][ /\ (pc = "readApiKey" /\ Undecryptable) =>
              /\ pc' = "promptApiKey"
              /\ keyRead' = Null
              /\ err' = NoError
              /\ exitCode' = 0
              /\ file' = file
        /\ (pc = "promptApiKey" /\ Undecryptable /\ pc' # "promptApiKey") =>
              \/ /\ pc' = "getDiff"
                 /\ apiKey' # Null
                 /\ file'.data.apiKey # file.data.apiKey
                 /\ readApiKey(file', envKey).value = apiKey'
                 /\ exitCode' = 0
              \/ /\ pc' = "exited"
                 /\ file' = file
                 /\ err'.message.text = "API key operation failed: ${error.message}"
        /\ (pc = "getDiff" /\ cnt.keyPrompt = 1 /\ StagedDiff(execOut')) =>
              /\ pc' = "menu"
              /\ exitCode' = 0 ]_vars

\* after the warning about the stored key, a key was entered and stored and
\* the main menu is shown
C13_Witness ==
    /\ pc = "menu"
    /\ \E i \in 1..Len(trace) : trace[i] = "keyWarning"
    /\ cnt.keyPrompt = 1
    /\ apiKey = <<"z">>
    /\ readApiKey(file, envKey).value = <<"z">>

\* C14: Config.load on a file that exists and parses never fails, leaves
\* the file as it is, and returns a record that has the file's value for
\* every key of the file, the default value for every default key the file
\* lacks, and no other key.
C14_DefaultsOverriddenByFile ==
    (file.kind = "json" /\ pc \notin {"start", "loadConfig"} /\ exitCode = 0) =>
        /\ pc = "readApiKey"
        /\ err = NoError
        /\ DOMAIN config = (DOMAIN DEFAULT_CONFIG) \cup (DOMAIN file.data)
        /\ \A k \in DOMAIN file.data : config[k] = file.data[k]
        /\ \A k \in (DOMAIN DEFAULT_CONFIG) \ (DOMAIN file.data) :
              config[k] = DEFAULT_CONFIG[k]

\* the file holds only maxRetries: 5
C14_Witness ==
    /\ pc = "readApiKey"
    /\ file = JsonFile([maxRetries |-> 5])
    /\ config = [maxCommitLength |-> 70, minMessageLength |-> 4, apiTimeout |-> 10000,
                 maxRetries |-> 5, retryDelay |-> 1000, configVersion |-> "1.0.0"]

\* C15: GitOperations.commit is called only from the confirmation prompt
\* answered yes, with the message that prompt showed; a confirmation
\* answered no makes no commit and leads back to the main menu; and a run
\* calls commit at most once.
C15_CommitOnlyWhenConfirmed ==
    [][ /\ (pc' = "commit" /\ pc # "commit") =>
              (pc = "confirm" /\ message' = message /\ commits' = commits)
        /\ (commits' # commits) =>
              /\ pc = "commit"
              /\ commits' = Append(commits, message)
              /\ Len(commits') = 1
              /\ cnt'.commit = 1
              /\ pc' \in {"postCommit", "exited"}
        /\ (pc = "confirm" /\ pc' \notin {"confirm", "commit"}) =>
              (pc' = "menu" /\ commits' = commits /\ message' = <<>>)
        /\ (pc \in {"postCommit", "exited"}) => pc' \in {"postCommit", "exited"} ]_vars

\* a commit made after the menu was shown more than once
C15_Witness ==
    /\ pc = "postCommit"
    /\ cnt.generate = 2
    /\ cnt.commit = 1
    /\ commits = << <<"a", "b">> >>

\* the calls to git and to the generation service among the operations of
\* a run, in the order of their first occurrence
ExternalOps == {"checkRepository", "getDiff", "generate", "commit", "push", "status", "log"}
ExternalCalls(t) == SelectSeq(t, LAMBDA op : op \in ExternalOps)
Terminated == << Log("warning", Msg("Process terminated!", <<>>)) >>

\* C16: when a run in which generate was chosen once and its candidate
\* committed ends by "exit" chosen first in the post-commit menu, its
\* external calls are checkRepository, getDiff, generateCommitMessage and
\* commit, in this order and once each, and there is no push, status or log.
C16_ExternalCallsOfGenerateRun ==
    ( /\ pc = "exited"
      /\ logged = Terminated
      /\ cnt.generate = 1
      /\ cnt.commit = 1
      /\ cnt.view = 0 ) =>
        /\ ExternalCalls(trace) = <<"checkRepository", "getDiff", "generate", "commit">>
        /\ cnt.getDiff = 1
        /\ cnt.push = 0
        /\ Len(commits) = 1
        /\ exitCode = 0

\* a candidate of the service was committed and "exit" chosen
C16_Witness ==
    /\ pc = "exited"
    /\ logged = Terminated
    /\ cnt.generate = 1
    /\ cnt.commit = 1
    /\ cnt.view = 0
    /\ commits = << <<"f", "i", "x", ":", " ", "a">> >>

\* reads and writes of the configuration file and prompts for the API key
StartupOps == {"configWrite", "configRead", "keyRead", "keyWarning", "keyPrompt", "keyStore"}
Before(t, a, b) ==
    \A i \in 1..Len(t) : t[i] = b => \E j \in 1..(i - 1) : t[j] = a
KeyPrefixes ==
    { <<>>, <<"keyPrompt", "keyStore">>, <<"keyWarning", "keyPrompt", "keyStore">> }
StartupPrefixes ==
    { <<"checkRepository">> \o w \o <<"configRead", "keyRead">> \o k :
        w \in { <<>>, <<"configWrite">> }, k \in KeyPrefixes }

\* C17 as stated: the repository check and the staged-diff fetch come
\* first; no read or write of the configuration file and no prompt happens
\* before getDiff has returned.
C17_Original ==
    /\ (trace # <<>> => trace[1] = "checkRepository")
    /\ \A op \in StartupOps : Before(trace, "getDiff", op)

\* C17: the repository check comes first; then the configuration file is
\* read (and written when absent), the stored key is read and, when none
\* is obtained, the operator is prompted and the key stored; only then is
\* the staged diff fetched, before the menu and every later operation.
C17_StartupOrder ==
    /\ (trace # <<>> => trace[1] = "checkRepository")
    /\ \A i \in 1..Len(trace) :
          /\ (trace[i] = "getDiff") => SubSeq(trace, 1, i - 1) \in StartupPrefixes
          /\ (trace[i] \in StartupOps) =>
                \A j \in 1..(i - 1) : trace[j] # "getDiff"
    /\ \A op \in {"menu", "generate", "commit", "push", "status", "log"} :
          Before(trace, "getDiff", op)
    /\ (pc = "getDiff") => trace \in StartupPrefixes

\* a first run: the file is created, the key asked for and stored, and
\* only then the staged diff is fetched
C17_Witness ==
    /\ pc = "menu"
    /\ trace = <<"checkRepository", "configWrite", "configRead", "keyRead",
                 "keyPrompt", "keyStore", "getDiff">>

KeyOps(t) == SelectSeq(t, LAMBDA op : op \in {"keyRead", "keyWarning", "keyPrompt", "keyStore"})

\* C18 as stated: the stored key is read, the operator prompted or a key
\* stored only after generate was chosen; a run with only the manual path
\* or exit has none of these.
C18_Original ==
    \A op \in {"keyRead", "keyPrompt", "keyStore"} : Before(trace, "generate", op)

\* C18: the credential store is consulted at start-up, before the menu is
\* shown and whatever is chosen there: the stored key is read once and,
\* only when that gives no key, the operator is prompted once and the key
\* stored once; after that no operation reads, asks for or stores a key.
C18_KeyObtainedAtStartup ==
    [][ /\ (pc \notin {"readApiKey", "promptApiKey"}) =>
              /\ KeyOps(trace') = KeyOps(trace)
              /\ cnt'.keyPrompt = cnt.keyPrompt
              /\ apiKey' = apiKey
              /\ keyRead' = keyRead
              /\ HasApiKey(file'.data) = HasApiKey(file.data)
              /\ HasApiKey(file.data) => file'.data.apiKey = file.data.apiKey
        /\ (pc' = "menu") =>
              /\ KeyOps(trace') \in { <<"keyRead">> \o k : k \in KeyPrefixes }
              /\ apiKey' # Null
              /\ (cnt'.keyPrompt = 1) = (keyRead' = Null)
              /\ (cnt'.keyPrompt = 0) = (keyRead' # Null)
        /\ (pc \in {"readApiKey", "promptApiKey"}) =>
              \A i \in 1..Len(trace) : trace[i] \notin {"getDiff", "menu", "generate"} ]_vars

\* a run in which only exit was chosen asked for a key and stored it
C18_Witness ==
    /\ pc = "exited"
    /\ logged = Terminated
    /\ trace = <<"checkRepository", "configRead", "keyRead", "keyPrompt", "keyStore",
                 "getDiff", "menu">>
    /\ lastStored.run = 1

\* C19: the message of the commit that GitOperations.commit(message)
\* creates is the given string, character for character, double quotes,
\* backquotes and dollar signs included.
C19_CommitMessageExact ==
    /\ Len(created) <= Len(commits)
    /\ \A i \in 1..Len(created) : created[i] = commits[i]

\* C20: with the API key variable set in the environment, the session
\* uses its value as the API key and does not prompt for a key, also when
\* the configuration file holds none.
C20_EnvironmentKeyUsed ==
    (envApiKey # Null) =>
        /\ cnt.keyPrompt = 0
        /\ pc # "promptApiKey"
        /\ (pc \in {"getDiff", "menu"}) => apiKey = envApiKey

\* everything but the settlements still to come
restVars ==
    << file, envKey, envApiKey, run, pc, config, apiKey, keyRead, diff, execOut, err,
       exitCode, logged, trace, cnt, messages, message, prefix, commits, created,
       gpc, attempts, requests, prompt, waits, failures, response, genResult, lastStored >>

\* C21: the settlement of a request whose timer has fired, and the firing
\* of a timer whose request has settled, change nothing (not the attempt
\* counter, the requests, the waits or the position of the loop), and an
\* invocation that has produced its outcome produces no second one.
C21_LateSettlementIgnored ==
    [][ /\ (late' # late /\ late' \subseteq late) => UNCHANGED restVars
        /\ (genResult # NoResult /\ genResult' # genResult) =>
              (genResult' = NoResult /\ gpc = "idle" /\ pc \in {"menu", "select"})
        /\ (genResult = NoResult /\ genResult' # NoResult) => gpc' = "idle" ]_vars

\* the request of the first attempt has settled after its timer had fired,
\* while the second attempt was going on
C21_Witness ==
    /\ gpc = "racing"
    /\ failures = << ApiTimeout >>
    /\ attempts = 1
    /\ requests = 2
    /\ late = {}

Last(q) == q[Len(q)]

\* C22: when the timer of an attempt fires first, the attempt fails with
\* "API Timeout", which counts as one more failed attempt: a retryDelay
\* wait follows when attempts are left, the APIError of exhausted retries
\* (never a rate limit) when none is; when the request settles first, the
\* response is parsed and returned, or the request's error decides alone.
C22_TimeoutIsTransient ==
    [][ (gpc = "racing" /\ gpc' # "racing") =>
          /\ (failures' # failures /\ Last(failures') = ApiTimeout) =>
                /\ "request" \in late'
                /\ attempts' = attempts + 1
                /\ (attempts' < config.maxRetries) =>
                      (gpc' = "delay" /\ waits' = waits + 1 /\ genResult' = NoResult)
                /\ (attempts' = config.maxRetries) =>
                      /\ gpc' = "idle"
                      /\ genResult'.kind = "threw"
                      /\ genResult'.error =
                            APIError(Msg("AI generation failed after ${attempts} attempts: ${error.message}",
                                         <<attempts', ApiTimeout>>), FALSE)
          /\ (failures' # failures /\ Last(failures') # ApiTimeout) =>
                /\ "timer" \in late'
                /\ Last(failures') \in ServiceErrors
                /\ genResult' # NoResult =>
                      (genResult'.kind = "threw" /\ genResult'.error.message.args # <<attempts', ApiTimeout>>)
          /\ (failures' = failures) =>
                /\ "timer" \in late'
                /\ genResult' = [kind |-> "returned", value |-> parseMessages(response', config)] ]_vars

\* two attempts timed out and a third one is awaited
C22_Witness ==
    /\ gpc = "delay"
    /\ failures = << ApiTimeout, ApiTimeout >>
    /\ attempts = 2
    /\ waits = 2
    /\ config.maxRetries = 3

\* C23: a completed invocation of generateCommitMessage has returned a
\* sequence of candidates or raised an APIError; it never completes with
\* undefined, maxRetries = 0 included.
C23_ReturnsOrRaises ==
    /\ genResult.kind \in {"none", "returned", "threw"}
    /\ (genResult.kind = "threw") => genResult.error.name = "APIError"

\* C24: an invocation of generateCommitMessage that has started completes
\* in the end (it returns or raises), also when no request is ever answered.
C24_GenerationCompletes == (gpc # "idle") ~> (gpc = "idle")

\* no request was answered: three attempts timed out and the call raised
C24_Witness ==
    /\ gpc = "idle"
    /\ genResult.kind = "threw"
    /\ failures = << ApiTimeout, ApiTimeout, ApiTimeout >>
    /\ requests = 3

\* C25: a GitError or an APIError raised at get-diff, generate, commit or
\* push either gives control back to a menu or ends the process with an
\* exit code that is not 0.
C25_BoundaryErrorsNeverExitZero ==
    (err.name \in {"GitError", "APIError"}) =>
        \/ pc = "menu"
        \/ pc = "exited" /\ exitCode # 0

\* the step in which generateCommitMessage returns no candidate, or the
\* operator answers the candidate list with "Return to menu"
NoCandidateTaken ==
    \/ /\ genResult' # genResult
       /\ genResult'.kind = "returned"
       /\ genResult'.value = <<>>
    \/ /\ pc = "select"
       /\ pc' \notin {"select", "askEdit"}

\* C26 as stated: when generation returns no candidate, or the operator
\* picks "Return to menu", the commit type list is the next prompt and no
\* commit is made with a generated message.
C26_Original ==
    [][ NoCandidateTaken =>
          /\ pc' = "prefix"
          /\ message' = <<>>
          /\ commits' = commits ]_vars

\* C26: when generation returns no candidate, or the operator picks
\* "Return to menu", the main menu is the next prompt and no commit is made
\* with a generated message: nothing is committed in that step and no
\* candidate is kept.
C26_BackToMainMenu ==
    [][ NoCandidateTaken =>
          /\ pc' = "menu"
          /\ message' = <<>>
          /\ messages' = <<>>
          /\ commits' = commits ]_vars

\* generation has returned an empty candidate set and the menu is shown
C26_Witness ==
    /\ pc = "menu"
    /\ genResult = [kind |-> "returned", value |-> <<>>]
    /\ logged = << Log("warning", Msg("No valid commit messages generated", <<>>)) >>

\* C27: the post-commit menu is entered only from a commit that git made;
\* a status or log that ran is followed by the post-commit menu again (a
\* command that failed is logged and ends the session); push and exit end
\* the session; git push runs only from the post-commit menu and at most
\* once in a run; a failed push is logged and ends the session; nothing
\* is committed from the post-commit menu.
C27_PostCommitMenu ==
    [][ /\ (pc' = "postCommit" /\ pc # "postCommit") =>
              /\ pc = "commit"
              /\ Len(created') = Len(created) + 1
              /\ cnt'.commit = cnt.commit + 1
        /\ (pc = "postCommit" /\ cnt'.view > cnt.view) =>
              /\ cnt'.push = cnt.push
              /\ \/ pc' = "postCommit" /\ err' = NoError
                 \/ pc' = "exited" /\ err' # NoError
                      /\ logged' = << Log("error", handleError(err')) >>
        /\ (pc = "postCommit" /\ cnt'.view = cnt.view /\ pc' # pc) => pc' = "exited"
        /\ (pc = "postCommit") => (commits' = commits /\ created' = created)
        /\ (cnt'.push > cnt.push) =>
              /\ pc = "postCommit"
              /\ cnt'.push = 1
              /\ pc' = "exited"
              /\ (err' # NoError) =>
                    /\ err'.name = "GitError"
                    /\ logged' = << Log("error", handleError(err')) >>
        /\ (pc = "exited") => (cnt' = cnt /\ commits' = commits) ]_vars

\* status or log was viewed twice, then the push failed and the session ended
C27_Witness ==
    /\ pc = "exited"
    /\ cnt.push = 1
    /\ cnt.view = 2
    /\ err.name = "GitError"
    /\ Len(created) = 1

\* C28: the configuration file changes only when Config.load creates it
\* with the defaults, having found it absent, and when _storeApiKey saves a
\* newly entered key; it is never deleted; and a stored key leaves every
\* other key that was in the file with the value it had.
C28_ConfigFileWrites ==
    [][ (file' # file) =>
          \/ /\ file.kind = "absent"
             /\ file' = JsonFile(DEFAULT_CONFIG)
          \/ /\ pc = "promptApiKey"
             /\ file.kind = "json"
             /\ file'.kind = "json"
             /\ HasApiKey(file'.data)
             /\ \A k \in (DOMAIN file.data) \ {"apiKey"} :
                   /\ k \in DOMAIN file'.data
                   /\ file'.data[k] = file.data[k] ]_vars

\* a key was stored into a file that held a maxRetries of its own
C28_Witness ==
    /\ lastStored.run = 1
    /\ file.kind = "json"
    /\ HasApiKey(file.data)
    /\ file.data.apiKey # CorruptBlob
    /\ file.data.maxRetries = 1
    /\ pc = "getDiff"

\* the session is past the start-up of run
PastStartup ==
    pc \notin {"start", "loadConfig", "readApiKey", "promptApiKey", "getDiff", "exited"}

\* C29: getDiff is called once in a run, before the first main menu; the
\* prompt of every generateContent call of the run, the calls made after a
\* return to the menu included, holds the string that call of getDiff
\* returned; and when getDiff fails the run ends with no menu answered,
\* nothing generated and nothing committed.
C29_OneDiffPerRun ==
    /\ cnt.getDiff <= 1
    /\ Before(trace, "getDiff", "menu")
    /\ PastStartup => (cnt.getDiff = 1 /\ getDiff(execOut).ok)
    /\ (requests > 0) =>
          /\ cnt.getDiff = 1
          /\ getDiff(execOut).ok
          /\ prompt.args = << config.maxCommitLength, getDiff(execOut).value >>
    /\ (cnt.getDiff = 1 /\ ~getDiff(execOut).ok) =>
          /\ pc = "exited"
          /\ err.name = "GitError"
          /\ \A i \in 1..Len(trace) : trace[i] # "menu"
          /\ cnt.generate = 0
          /\ cnt.commit = 0

\* the second invocation of generateCommitMessage of a run is at its second
\* request, for a diff that ends with a line feed
C29_Witness ==
    /\ cnt.generate = 2
    /\ requests = 2
    /\ gpc = "racing"
    /\ diff = <<"+", "a", "\n">>

\* C30: "exit" in the commit type list logs "Process terminated!" and the
\* main menu is shown again: no confirmation prompt and no commit follow
\* from it and the session goes on; the session ends only by the Exit of the
\* main menu, from the post-commit menu of a completed commit, or by an
\* error.
C30_ManualExitReturnsToMenu ==
    [][ /\ (pc = "prefix" /\ pc' \notin {"prefix", "manualInput"}) =>
              /\ pc' = "menu"
              /\ err' = NoError
              /\ logged' = Terminated
              /\ commits' = commits
              /\ message' = <<>>
        /\ (pc # "exited" /\ pc' = "exited") =>
              \/ pc = "menu" /\ logged' = Terminated
              \/ pc = "postCommit" /\ cnt.commit = 1 /\ Len(created) = 1
              \/ err' # NoError ]_vars

\* "exit" was chosen in the commit type list and the main menu is shown
C30_Witness ==
    /\ pc = "menu"
    /\ logged = Terminated
    /\ \E i \in 1..Len(trace) : trace[i] = "menu"

====
